---- MODULE Spec2Model ----
(***************************************************************************)
(* SentraAI (main.cpp): chunking of the corpus, the vector index (build,   *)
(* saveToDisk, loadFromDisk, search, cosineSim), the bounded context       *)
(* assembly of SentraEngine::answer and the build-or-load orchestration    *)
(* of SentraEngine::buildOrLoadIndex.                                      *)
(*                                                                         *)
(* A std::string is a sequence of one-character strings (run-length        *)
(* encoded in the context loop, whose strings are long).  Offsets and      *)
(* positions are 0-based as in the code; s[i + 1] is the code's s[i].      *)
(* A float is an integer.  Each component has its own variables and its    *)
(* own specification; buildOrLoadIndex has one over several process runs.  *)
(***************************************************************************)
EXTENDS Integers, Sequences, FiniteSets

VARIABLES
    \* ---- loadDocuments ----
    corpus,        \* the .txt files of dataDir, in directory_iterator order
    chunks,        \* the std::vector<Document> loadDocuments returned
    cpc,           \* "idle" | "start" | "done"
    \* ---- VectorIndex::build ----
    bdocs,         \* build's docs argument
    bembs,         \* build's embeddings argument
    bentries,      \* entries_ after the call
    bpc,           \* "idle" | "start" | "built" | "failed"
    \* ---- VectorIndex::search ----
    sentries,      \* entries_ of the index searched
    squery,        \* queryEmbedding
    stopK,         \* topK as passed
    sscored,       \* the scores, scored[i].first by entry
    ssel,          \* scored[0..topK).second after partial_sort
    sresult,       \* the documents returned
    spc,           \* "idle" | "start" | "done" | "failed"
    \* ---- SentraEngine::answer, the context loop ----
    adocs,         \* docs: the ranked documents search returned
    ai,            \* the loop's position in docs (1-based)
    context,       \* the decorated pieces pushed so far
    total_chars,   \* the running total
    apc,           \* "idle" | "loop" | "done"
    \* ---- saveToDisk / loadFromDisk on one pair of artifacts ----
    pstore,        \* entries_ of the index that is saved
    pindex,        \* the file at indexPath: [exists, data]
    pmeta,         \* the file at metaPath: [exists, data]
    ploaded,       \* entries_ of the index that loads
    pshort,        \* the index file was cut short after it was written
    ppc,           \* "idle" | "built" | "saved" | "loaded" | "failed"
    \* ---- main / SentraEngine::buildOrLoadIndex, over several runs ----
    ecorpus,       \* the .txt files of dataDir
    eindex,        \* the file at indexPath, as on disk: [exists, data]
    emeta,         \* the file at metaPath, as on disk: [exists, data]
    edocs,         \* docs (local of buildOrLoadIndex)
    eembs,         \* embeddings (local of buildOrLoadIndex)
    entries_,      \* VectorIndex::entries_ of the running process
    epc,           \* where the running process stands
    eruns,         \* processes started so far
    elog,          \* history: the calls this run made, in order
    edisk0,        \* history: the two files as this run found them
    ebuilt,        \* history: every store a build has produced
    ecrashed       \* history: a run crashed between the two writes

chunkVars == <<corpus, chunks, cpc>>
buildVars == <<bdocs, bembs, bentries, bpc>>
searchVars == <<sentries, squery, stopK, sscored, ssel, sresult, spc>>
asmVars == <<adocs, ai, context, total_chars, apc>>
persistVars == <<pstore, pindex, pmeta, ploaded, pshort, ppc>>
engineVars == <<ecorpus, eindex, emeta, edocs, eembs, entries_, epc, eruns,
                elog, edisk0, ebuilt, ecrashed>>
vars == <<chunkVars, buildVars, searchVars, asmVars, persistVars, engineVars>>

(***************************************************************************)
(* Bounds of the model.                                                    *)
(***************************************************************************)
MaxLen == 4        \* longest file content, in characters
MaxFiles == 2      \* most .txt files in dataDir

(***************************************************************************)
(* Generic helpers.                                                        *)
(***************************************************************************)
Min(a, b) == IF a < b THEN a ELSE b

SeqsUpTo(S, n) == UNION {[1..k -> S] : k \in 0..n}

\* std::string::substr(pos, n): the characters at offsets pos .. pos+n-1,
\* clipped to the end of the string.
Substr(s, pos, n) == SubSeq(s, pos + 1, Min(pos + n, Len(s)))

\* std::string::substr(pos): from offset pos to the end.
SubstrFrom(s, pos) == SubSeq(s, pos + 1, Len(s))

(***************************************************************************)
(* loadDocuments: split every non-empty file on "\n\n".                    *)
(***************************************************************************)
NL == "\n"

Chars == {"a", NL}

npos == -1

\* std::string::find("\n\n", pos): the least offset >= pos at which the
\* separator starts, npos when there is none.
Find(content, pos) ==
    LET hits == {i \in pos..(Len(content) - 2) :
                    content[i + 1] = NL /\ content[i + 2] = NL}
    IN IF hits = {} THEN npos
       ELSE CHOOSE i \in hits : \A j \in hits : i <= j

Digit(d) == CASE d = 0 -> "0" [] d = 1 -> "1" [] d = 2 -> "2" [] d = 3 -> "3"
              [] d = 4 -> "4" [] d = 5 -> "5" [] d = 6 -> "6" [] d = 7 -> "7"
              [] d = 8 -> "8" [] d = 9 -> "9"

\* std::to_string(int) for a non-negative value.
RECURSIVE to_string(_)
to_string(n) == IF n < 10 THEN <<Digit(n)>>
               ELSE to_string(n \div 10) \o <<Digit(n % 10)>>

DocId(n) == <<"d", "o", "c", "-">> \o to_string(n)

\* The while loop's mutant: after a separator the scan resumes one character
\* later instead of two.
RECURSIVE SplitFromSkipOne(_, _, _, _)
SplitFromSkipOne(path, content, pos, docs) ==
    IF ~(pos < Len(content)) THEN docs
    ELSE LET next  == Find(content, pos)
             chunk == IF next = npos THEN SubstrFrom(content, pos)
                      ELSE Substr(content, pos, next - pos)
             docs2 == IF chunk # <<>>
                      THEN Append(docs, [id |-> DocId(Len(docs)),
                                         sourcePath |-> path,
                                         content |-> chunk])
                      ELSE docs
         IN IF next = npos THEN docs2
            ELSE SplitFromSkipOne(path, content, next + 1, docs2)

\* The while loop over one file's content, from offset pos; docs is the
\* vector so far (docCounter is its size: one id per push_back).
RECURSIVE SplitFrom(_, _, _, _)
SplitFrom(path, content, pos, docs) ==
    IF ~(pos < Len(content)) THEN docs
    ELSE LET next  == Find(content, pos)
             chunk == IF next = npos THEN SubstrFrom(content, pos)
                      ELSE Substr(content, pos, next - pos)
             docs2 == IF chunk # <<>>
                      THEN Append(docs, [id |-> DocId(Len(docs)),
                                         sourcePath |-> path,
                                         content |-> chunk])
                      ELSE docs
         IN IF next = npos THEN docs2
            ELSE SplitFrom(path, content, next + 2, docs2)

\* The for loop over the directory entries, from entry i on.
RECURSIVE LoadFrom(_, _, _)
LoadFrom(files, i, docs) ==
    IF i > Len(files) THEN docs
    ELSE IF files[i].content = <<>> THEN LoadFrom(files, i + 1, docs)
    ELSE LoadFrom(files, i + 1,
                  SplitFrom(files[i].path, files[i].content, 0, docs))

loadDocuments(files) == LoadFrom(files, 1, <<>>)

FilePath(i) == <<"f", Digit(i)>>

\* The directories of k files, each of at most MaxLen characters.
Corpora(k) ==
    {[i \in 1..k |-> [path |-> FilePath(i), content |-> cs[i]]] :
        cs \in [1..k -> SeqsUpTo(Chars, MaxLen)]}

LoadDocuments ==
    /\ cpc = "start"
    /\ chunks' = loadDocuments(corpus)
    /\ cpc' = "done"
    /\ UNCHANGED corpus

(***************************************************************************)
(* VectorIndex::build.  A float is an integer; an embedding is a sequence  *)
(* of floats.  An IndexEntry is [doc, embedding].                          *)
(***************************************************************************)
MaxChunks == 3     \* most documents handed to build
MaxDim == 3        \* longest embedding

\* The first loop: the size of the first non-empty embedding, 0 if none.
RECURSIVE RefDimFrom(_, _)
RefDimFrom(embeddings, i) ==
    IF i > Len(embeddings) THEN 0
    ELSE IF embeddings[i] # <<>> THEN Len(embeddings[i])
    ELSE RefDimFrom(embeddings, i + 1)

\* The filter loop's mutant: a pair is skipped only when its embedding is
\* empty (the dimension comparison is missing).
RECURSIVE KeepNonEmptyFrom(_, _, _, _, _)
KeepNonEmptyFrom(docs, embeddings, refDim, i, entries) ==
    IF i > Len(docs) THEN entries
    ELSE IF embeddings[i] = <<>>
         THEN KeepNonEmptyFrom(docs, embeddings, refDim, i + 1, entries)
    ELSE KeepNonEmptyFrom(docs, embeddings, refDim, i + 1,
             Append(entries, [doc |-> docs[i], embedding |-> embeddings[i]]))

\* The second loop: push every pair whose embedding has refDim elements.
RECURSIVE FilterFrom(_, _, _, _, _)
FilterFrom(docs, embeddings, refDim, i, entries) ==
    IF i > Len(docs) THEN entries
    ELSE IF embeddings[i] = <<>>
         THEN FilterFrom(docs, embeddings, refDim, i + 1, entries)
    ELSE IF Len(embeddings[i]) # refDim
         THEN FilterFrom(docs, embeddings, refDim, i + 1, entries)
    ELSE FilterFrom(docs, embeddings, refDim, i + 1,
             Append(entries, [doc |-> docs[i], embedding |-> embeddings[i]]))

\* build(docs, embeddings) called on an index holding `old`: the outcome
\* and entries_ afterwards (a throw before entries_.clear() leaves old).
build(old, docs, embeddings) ==
    IF docs = <<>>
    THEN [ok |-> FALSE, entries |-> old, error |-> "No documents to build index."]
    ELSE IF Len(docs) # Len(embeddings)
    THEN [ok |-> FALSE, entries |-> old, error |-> "Docs and embeddings size mismatch"]
    ELSE LET refDim == RefDimFrom(embeddings, 1) IN
         IF refDim = 0
         THEN [ok |-> FALSE, entries |-> old, error |-> "All embeddings are empty."]
         ELSE LET entries == FilterFrom(docs, embeddings, refDim, 1, <<>>) IN
              IF entries = <<>>
              THEN [ok |-> FALSE, entries |-> entries,
                    error |-> "No valid entries after filtering embeddings."]
              ELSE [ok |-> TRUE, entries |-> entries, error |-> ""]

\* Inputs of build: n documents and m embeddings; embedding i has one of the
\* lengths 0..MaxDim and holds the float i in every position.
BuildDocs(n) ==
    [i \in 1..n |-> [id |-> DocId(i - 1), sourcePath |-> FilePath(1),
                     content |-> <<"a">>]]

BuildEmbeddings(m) ==
    {[i \in 1..m |-> [j \in 1..lens[i] |-> i]] : lens \in [1..m -> 0..MaxDim]}

Build ==
    /\ bpc = "start"
    /\ LET r == build(bentries, bdocs, bembs) IN
        /\ bentries' = r.entries
        /\ bpc' = IF r.ok THEN "built" ELSE "failed"
    /\ UNCHANGED <<bdocs, bembs>>

(***************************************************************************)
(* VectorIndex::cosineSim and VectorIndex::search.                         *)
(*                                                                         *)
(* A score is kept exactly, as the fraction num/den (den > 0) that equals  *)
(* sign(c) * c^2 for the cosine c = dot / (sqrt(na) * sqrt(nb)); the map   *)
(* c |-> sign(c) * c^2 is strictly increasing, so scores compare as the    *)
(* cosines do.  Rounding of double and float is not modelled.              *)
(***************************************************************************)
MaxEntries == 3    \* most entries of a searched index
MaxK == 4          \* largest topK

Zero == [num |-> 0, den |-> 1]

RECURSIVE DotFrom(_, _, _)
DotFrom(a, b, i) ==
    IF i > Len(a) THEN 0 ELSE a[i] * b[i] + DotFrom(a, b, i + 1)

Sgn(x) == IF x > 0 THEN 1 ELSE IF x < 0 THEN -1 ELSE 0

cosineSim(a, b) ==
    IF Len(a) # Len(b) \/ a = <<>> THEN Zero
    ELSE LET dot == DotFrom(a, b, 1)
             na  == DotFrom(a, a, 1)
             nb  == DotFrom(b, b, 1)
         IN IF na = 0 \/ nb = 0 THEN Zero
            ELSE [num |-> Sgn(dot) * dot * dot, den |-> na * nb]

\* x > y on scores.
Greater(x, y) == x.num * y.den > y.num * x.den

SameScore(x, y) == x.num * y.den = y.num * x.den

\* The comparator's mutant: ascending.
CompAscending(a, b) == Greater(b, a)

\* The lambda handed to std::partial_sort: a.first > b.first (descending).
Comp(a, b) == Greater(a, b)

\* topK after "if (topK > scored.size()) topK = scored.size()".
Clamp(topK, n) == IF topK > n THEN n ELSE topK

\* std::partial_sort(first, first + k, last, comp) on scored: the first k
\* places hold k elements none of which comes after (by comp) an element
\* left out, sorted by comp.  The standard does not say which of several
\* equivalent elements comes first or is kept, so every such outcome is one
\* the build can produce.  An outcome is the sequence of the k entry
\* indices scored[0..k).second.
PartialSort(scored, k) ==
    {sel \in [1..k -> 1..Len(scored)] :
        /\ \A i, j \in 1..k : i # j => sel[i] # sel[j]
        /\ \A i, j \in 1..k : i < j => ~Comp(scored[sel[j]], scored[sel[i]])
        /\ \A i \in 1..k : \A r \in 1..Len(scored) :
              (\A j \in 1..k : sel[j] # r) => ~Comp(scored[r], scored[sel[i]])}

Scored(entries, query) ==
    [i \in 1..Len(entries) |-> cosineSim(query, entries[i].embedding)]

\* The embeddings an index of dimension 2 may hold.
Vecs == {<<1, 0>>, <<0, 1>>, <<1, 1>>, <<-1, 0>>, <<0, 0>>, <<2, 0>>}

\* Query embeddings: of the index's dimension, shorter, longer and empty.
Queries == {<<1, 0>>, <<0, 1>>, <<1, 1>>, <<-1, 1>>, <<0, 0>>,
            <<>>, <<1>>, <<1, 0, 0>>}

\* search() on an empty index throws.
SearchEmpty ==
    /\ spc = "start"
    /\ sentries = <<>>
    /\ spc' = "failed"
    /\ UNCHANGED <<sentries, squery, stopK, sscored, ssel, sresult>>

Search ==
    /\ spc = "start"
    /\ sentries # <<>>
    /\ LET scored == Scored(sentries, squery)
           k      == Clamp(stopK, Len(scored))
       IN /\ sscored' = scored
          /\ \E sel \in PartialSort(scored, k) :
                /\ ssel' = sel
                /\ sresult' = [i \in 1..k |-> sentries[sel[i]].doc]
    /\ spc' = "done"
    /\ UNCHANGED <<sentries, squery, stopK>>

(***************************************************************************)
(* SentraEngine::answer: the loop that builds the bounded context.         *)
(*                                                                         *)
(* The loop reads only sizes and takes prefixes, and its strings are up to *)
(* thousands of characters long, so here a string is kept run-length       *)
(* encoded: the sequence <<[ch |-> c1, n |-> n1], ...>> is n1 times the    *)
(* character c1, then n2 times c2, ...; no run is empty and no two         *)
(* neighbouring runs have the same character.                              *)
(***************************************************************************)
MAX_TOTAL_CHARS == 3000
MAX_CHARS_PER_CHUNK == 800
MaxRanked == 4     \* most documents in the ranked list

\* A character of a run: a literal character of the program text, or the
\* character that fills the content ("c") or the source path ("p") of the
\* i-th ranked document.
Lit(c) == <<c, 0>>

Run(c, n) == IF n = 0 THEN <<>> ELSE <<[ch |-> c, n |-> n]>>

\* std::string::size().
RECURSIVE SizeFrom(_, _)
SizeFrom(s, i) == IF i > Len(s) THEN 0 ELSE s[i].n + SizeFrom(s, i + 1)

Size(s) == SizeFrom(s, 1)

\* operator+ / operator+= on strings.
Cat(s, t) ==
    IF s = <<>> THEN t
    ELSE IF t = <<>> THEN s
    ELSE IF s[Len(s)].ch = t[1].ch
         THEN SubSeq(s, 1, Len(s) - 1)
              \o <<[ch |-> t[1].ch, n |-> s[Len(s)].n + t[1].n]>>
              \o SubSeq(t, 2, Len(t))
    ELSE s \o t

\* substr(0, n): the first n characters (all of s when it is shorter).
RECURSIVE TakeFrom(_, _, _)
TakeFrom(s, i, n) ==
    IF i > Len(s) \/ n = 0 THEN <<>>
    ELSE IF s[i].n >= n THEN Run(s[i].ch, n)
    ELSE <<s[i]>> \o TakeFrom(s, i + 1, n - s[i].n)

Take(s, n) == TakeFrom(s, 1, n)

Ellipsis == Run(Lit("."), 3)

\* "[" + d.sourcePath + "]\n" + chunk
Decorate(sourcePath, chunk) ==
    Cat(Cat(Cat(Run(Lit("["), 1), sourcePath), Cat(Run(Lit("]"), 1), Run(Lit(NL), 1))), chunk)

\* The per-chunk cap: content beyond MAX_CHARS_PER_CHUNK is cut and marked.
PerChunkCap(content) ==
    IF Size(content) > MAX_CHARS_PER_CHUNK
    THEN Cat(Take(content, MAX_CHARS_PER_CHUNK), Ellipsis)
    ELSE content

\* The global cap on a chunk when total characters are already in the
\* context: [stop |-> the loop breaks, chunk |-> the chunk to decorate].
GlobalCap(chunk, total) ==
    IF total + Size(chunk) > MAX_TOTAL_CHARS
    THEN LET remaining == MAX_TOTAL_CHARS - total IN
         IF remaining > 0 /\ remaining < Size(chunk)
         THEN [stop |-> FALSE, chunk |-> Cat(Take(chunk, remaining), Ellipsis)]
         ELSE IF remaining = 0
         THEN [stop |-> TRUE, chunk |-> chunk]
         ELSE [stop |-> FALSE, chunk |-> chunk]
    ELSE [stop |-> FALSE, chunk |-> chunk]

\* The lengths the ranked documents' contents and source paths are drawn
\* from: around the per-chunk cap, and paths long enough for three pieces
\* to reach, or to cross, the total cap.
ContentLens == {1, 800, 801}

PathLens == {1, 197, 300}

RankedDoc(i, clen, plen) ==
    [id |-> DocId(i - 1),
     sourcePath |-> Run(<<"p", i>>, plen),
     content |-> Run(<<"c", i>>, clen)]

\* The range-for has run out of documents.
AsmEnd ==
    /\ apc = "loop"
    /\ ai > Len(adocs)
    /\ apc' = "done"
    /\ UNCHANGED <<adocs, ai, context, total_chars>>

\* if (total_chars >= MAX_TOTAL_CHARS) break;
AsmBreak ==
    /\ apc = "loop"
    /\ ai <= Len(adocs)
    /\ total_chars >= MAX_TOTAL_CHARS
    /\ apc' = "done"
    /\ UNCHANGED <<adocs, ai, context, total_chars>>

\* One pass of the loop body for docs[ai].
AsmIter ==
    /\ apc = "loop"
    /\ ai <= Len(adocs)
    /\ total_chars < MAX_TOTAL_CHARS
    /\ LET d   == adocs[ai]
           cap == GlobalCap(PerChunkCap(d.content), total_chars)
           decorated == Decorate(d.sourcePath, cap.chunk)
       IN IF cap.stop
          THEN /\ apc' = "done"
               /\ UNCHANGED <<ai, context, total_chars>>
          ELSE /\ total_chars' = total_chars + Size(decorated)
               /\ context' = Append(context, decorated)
               /\ ai' = ai + 1
               /\ apc' = "loop"
    /\ UNCHANGED adocs

(***************************************************************************)
(* VectorIndex::saveToDisk and VectorIndex::loadFromDisk.                  *)
(*                                                                         *)
(* A file is [exists, data].  The index file's data is a sequence of       *)
(* 4-byte words (a uint32 or a float each); a file that ends inside a word *)
(* is not modelled.  The metadata file's data is the JSON array, one       *)
(* object per entry, each member a JSON string literal (escaped text).     *)
(***************************************************************************)
MaxStore == 2      \* most entries of a saved index
MaxPDim == 2       \* largest dimension of a saved index

NoFile == [exists |-> FALSE, data |-> <<>>]

File(d) == [exists |-> TRUE, data |-> d]

\* static_cast<uint32_t> of a size: the value itself below 2^32, and no
\* index of the model comes near 2^32 entries or dimensions.
UInt32(n) == n

QUOTE == "\""

BACKSLASH == "\\"

\* The text of a JSON string literal (without the enclosing quotes) as
\* json::dump writes it: quote, backslash and newline are escaped.
RECURSIVE EscapeJson(_)
EscapeJson(s) ==
    IF s = <<>> THEN <<>>
    ELSE (CASE s[1] = QUOTE     -> <<BACKSLASH, QUOTE>>
            [] s[1] = BACKSLASH -> <<BACKSLASH, BACKSLASH>>
            [] s[1] = NL        -> <<BACKSLASH, "n">>
            [] OTHER            -> <<s[1]>>)
         \o EscapeJson(Tail(s))

\* The string json::parse reads from the text of a string literal.
RECURSIVE UnescapeJson(_)
UnescapeJson(t) ==
    IF t = <<>> THEN <<>>
    ELSE IF t[1] = BACKSLASH /\ Len(t) >= 2
         THEN <<(IF t[2] = "n" THEN NL ELSE t[2])>> \o UnescapeJson(SubSeq(t, 3, Len(t)))
    ELSE <<t[1]>> \o UnescapeJson(Tail(t))

\* The header's mutant: dim is written before num.
IndexHeaderSwapped(num, dim) == <<UInt32(dim), UInt32(num)>>

\* out.write(&num); out.write(&dim);
IndexHeader(num, dim) == <<UInt32(num), UInt32(dim)>>

\* The loop writing dim floats of every entry's embedding.
RECURSIVE IndexBlocksFrom(_, _, _)
IndexBlocksFrom(entries, i, dim) ==
    IF i > Len(entries) THEN <<>>
    ELSE SubSeq(entries[i].embedding, 1, dim)
         \o IndexBlocksFrom(entries, i + 1, dim)

\* Everything saveToDisk writes to the index stream.
IndexWords(entries) ==
    LET num == Len(entries)
        dim == Len(entries[1].embedding)
    IN IndexHeader(num, dim) \o IndexBlocksFrom(entries, 1, dim)

\* j.dump(2) of the array of {id, source, content}.
MetaJson(entries) ==
    [i \in 1..Len(entries) |->
        [id      |-> EscapeJson(entries[i].doc.id),
         source  |-> EscapeJson(entries[i].doc.sourcePath),
         content |-> EscapeJson(entries[i].doc.content)]]

\* in.read of one word at stream offset pos into a destination holding
\* old: the word read, or old when the file ends before it (the read fails,
\* and so does every later one).
ReadWord(data, pos, old) ==
    IF pos < Len(data) THEN data[pos + 1] ELSE old

\* in.read(emb.data(), dim * sizeof(float)) into the zero-initialised
\* vector emb(dim), at stream offset pos: the words the file still has are
\* stored, the rest of emb stays 0.
ReadBlock(data, pos, dim) ==
    [k \in 1..dim |-> ReadWord(data, pos + k - 1, 0)]

\* The loop over i < num: entry i pairs metadata element i with the next
\* dim words of the stream, which stands after the header and i-1 blocks.
RECURSIVE LoadEntriesFrom(_, _, _, _, _)
LoadEntriesFrom(data, meta, i, num, dim) ==
    IF i > num THEN <<>>
    ELSE <<[doc |-> [id         |-> UnescapeJson(meta[i].id),
                     sourcePath |-> UnescapeJson(meta[i].source),
                     content    |-> UnescapeJson(meta[i].content)],
            embedding |-> ReadBlock(data, 2 + (i - 1) * dim, dim)]>>
         \o LoadEntriesFrom(data, meta, i + 1, num, dim)

\* loadFromDisk on the two files: the outcome and entries_ afterwards.
loadFromDisk(index, meta) ==
    IF ~index.exists
    THEN [ok |-> FALSE, entries |-> <<>>, error |-> "Failed to open index file"]
    ELSE LET num == ReadWord(index.data, 0, 0)
             dim == ReadWord(index.data, 1, 0)
         IN IF ~meta.exists
            THEN [ok |-> FALSE, entries |-> <<>>, error |-> "Failed to open file: "]
            ELSE IF Len(meta.data) # num
            THEN [ok |-> FALSE, entries |-> <<>>,
                  error |-> "Metadata size does not match index"]
            ELSE [ok |-> TRUE,
                  entries |-> LoadEntriesFrom(index.data, meta.data, 1, num, dim),
                  error |-> ""]

\* The strings a saved document may hold: plain text, a newline, a quote,
\* a backslash followed by n.
PContents == {<<"a">>, <<"a", NL, "a">>, <<QUOTE>>, <<BACKSLASH, "n">>}

PFloats == {-1, 2}

\* The stores a successful build leaves, of n >= 1 entries of one dimension
\* d >= 1.
PStores(n, d) ==
    {[i \in 1..n |-> [doc |-> [id |-> DocId(i - 1),
                               sourcePath |-> FilePath(1),
                               content |-> cs[i]],
                      embedding |-> es[i]]] :
        cs \in [1..n -> PContents], es \in [1..n -> [1..d -> PFloats]]}

\* saveToDisk(), run to its end.
SaveToDisk ==
    /\ ppc = "built"
    /\ IF pstore = <<>>
       THEN UNCHANGED <<pindex, pmeta>> /\ ppc' = "failed"
       ELSE /\ pindex' = File(IndexWords(pstore))
            /\ pmeta' = File(MetaJson(pstore))
            /\ ppc' = "saved"
    /\ UNCHANGED <<pstore, ploaded, pshort>>

\* Something outside the program cuts the index file short.
TruncateIndex ==
    /\ ppc = "saved"
    /\ ~pshort
    /\ \E n \in 0..(Len(pindex.data) - 1) :
          pindex' = File(SubSeq(pindex.data, 1, n))
    /\ pshort' = TRUE
    /\ UNCHANGED <<pstore, pmeta, ploaded, ppc>>

\* loadFromDisk() in a later process.
LoadFromDisk ==
    /\ ppc = "saved"
    /\ LET r == loadFromDisk(pindex, pmeta) IN
        /\ ploaded' = r.entries
        /\ ppc' = IF r.ok THEN "loaded" ELSE "failed"
    /\ UNCHANGED <<pstore, pindex, pmeta, pshort>>

(***************************************************************************)
(* main and SentraEngine::buildOrLoadIndex.                                *)
(*                                                                         *)
(* A run is one process: main constructs the index (empty) and calls       *)
(* buildOrLoadIndex.  epc is                                               *)
(*   "idle"        no process yet                                          *)
(*   "start"       buildOrLoadIndex entered                                *)
(*   "embed"       in the embedding loop                                   *)
(*   "save_index"  build returned, saveToDisk entered                      *)
(*   "save_meta"   the index stream is open and written, metadata not yet  *)
(*   "save_close"  metadata written, the index stream not yet destroyed    *)
(*   "ready"       buildOrLoadIndex returned                               *)
(*   "fatal"       an exception reached main                               *)
(*   "crashed"     the process was killed                                  *)
(* The files outlive the processes; everything else is lost with one.      *)
(***************************************************************************)
MaxRuns == 3       \* most processes started

\* The mutant of existsOnDisk: the metadata file is not looked at.
existsOnDiskIndexOnly(index, meta) == index.exists

existsOnDisk(index, meta) == index.exists /\ meta.exists

\* The embedding loop's mutant: the documents are taken from the back.
NextToEmbedReversed(docs, embeddings) == docs[Len(docs) - Len(embeddings)]

\* for (const auto& d : docs) embeddings.push_back(llm_.embed(d.content)):
\* the document embedded next when `embeddings` are already there.
NextToEmbed(docs, embeddings) == docs[Len(embeddings) + 1]

\* What llm_.embed may return: whatever the provider answers.
EmbedResults == {<<>>, <<1>>, <<2>>, <<1, 2>>}

\* The contents of dataDir: no file, an empty file, one file of two
\* chunks, an empty file and a file of one chunk.
ECorpora ==
    {<<>>,
     <<[path |-> FilePath(1), content |-> <<>>]>>,
     <<[path |-> FilePath(1), content |-> <<"a", NL, NL, "a", "a">>]>>,
     <<[path |-> FilePath(1), content |-> <<>>],
       [path |-> FilePath(2), content |-> <<"a", NL>>]>>}

Event(op, arg) == [op |-> op, arg |-> arg]

\* A process starts: main constructs the VectorIndex and the engine.
Start ==
    /\ epc \in {"idle", "ready", "fatal", "crashed"}
    /\ eruns < MaxRuns
    /\ eruns' = eruns + 1
    /\ epc' = "start"
    /\ edocs' = <<>>
    /\ eembs' = <<>>
    /\ entries_' = <<>>
    /\ elog' = <<>>
    /\ edisk0' = <<eindex, emeta>>
    /\ UNCHANGED <<ecorpus, eindex, emeta, ebuilt, ecrashed>>

\* if (index_.existsOnDisk()) { index_.loadFromDisk(); return; }
LoadExisting ==
    /\ epc = "start"
    /\ existsOnDisk(eindex, emeta)
    /\ LET r == loadFromDisk(eindex, emeta) IN
        /\ entries_' = r.entries
        /\ epc' = IF r.ok THEN "ready" ELSE "fatal"
    /\ elog' = Append(elog, Event("load", <<>>))
    /\ UNCHANGED <<ecorpus, eindex, emeta, edocs, eembs, eruns, edisk0,
                   ebuilt, ecrashed>>

\* docs = loadDocuments(dataDir); if (docs.empty()) throw
ChunkCorpus ==
    /\ epc = "start"
    /\ ~existsOnDisk(eindex, emeta)
    /\ edocs' = loadDocuments(ecorpus)
    /\ epc' = IF edocs' = <<>> THEN "fatal" ELSE "embed"
    /\ UNCHANGED <<ecorpus, eindex, emeta, eembs, entries_, eruns, elog,
                   edisk0, ebuilt, ecrashed>>

\* One pass of the embedding loop: llm_.embed returns a vector.
Embed ==
    /\ epc = "embed"
    /\ Len(eembs) < Len(edocs)
    /\ \E v \in EmbedResults : eembs' = Append(eembs, v)
    /\ elog' = Append(elog, Event("embed", NextToEmbed(edocs, eembs).content))
    /\ UNCHANGED <<ecorpus, eindex, emeta, edocs, entries_, epc, eruns,
                   edisk0, ebuilt, ecrashed>>

\* One pass of the embedding loop: llm_.embed throws (empty response, a
\* response that does not parse); the exception reaches main.
EmbedFails ==
    /\ epc = "embed"
    /\ Len(eembs) < Len(edocs)
    /\ elog' = Append(elog, Event("embed_failed", NextToEmbed(edocs, eembs).content))
    /\ epc' = "fatal"
    /\ UNCHANGED <<ecorpus, eindex, emeta, edocs, eembs, entries_, eruns,
                   edisk0, ebuilt, ecrashed>>

\* index_.build(docs, std::move(embeddings));
BuildIndex ==
    /\ epc = "embed"
    /\ Len(eembs) = Len(edocs)
    /\ LET r == build(entries_, edocs, eembs) IN
        /\ entries_' = r.entries
        /\ epc' = IF r.ok THEN "save_index" ELSE "fatal"
        /\ ebuilt' = IF r.ok THEN ebuilt \cup {r.entries} ELSE ebuilt
    /\ elog' = Append(elog, Event("build", <<>>))
    /\ UNCHANGED <<ecorpus, eindex, emeta, edocs, eembs, eruns, edisk0,
                   ecrashed>>

\* saveToDisk, lines 254-275: the index file is created or truncated and
\* num, dim and the blocks are written to the stream.  The stream is
\* buffered and stays open until saveToDisk returns, so what the file
\* holds by now is some prefix of what was written.
SaveWriteIndex ==
    /\ epc = "save_index"
    /\ IF entries_ = <<>>
       THEN /\ epc' = "fatal"
            /\ UNCHANGED <<eindex, elog>>
       ELSE /\ \E n \in 0..Len(IndexWords(entries_)) :
                  eindex' = File(SubSeq(IndexWords(entries_), 1, n))
            /\ elog' = Append(elog, Event("write_index", <<>>))
            /\ epc' = "save_meta"
    /\ UNCHANGED <<ecorpus, emeta, edocs, eembs, entries_, eruns, edisk0,
                   ebuilt, ecrashed>>

\* saveToDisk, lines 277-286: the metadata file is written and closed.
SaveWriteMeta ==
    /\ epc = "save_meta"
    /\ emeta' = File(MetaJson(entries_))
    /\ elog' = Append(elog, Event("write_meta", <<>>))
    /\ epc' = "save_close"
    /\ UNCHANGED <<ecorpus, eindex, edocs, eembs, entries_, eruns, edisk0,
                   ebuilt, ecrashed>>

\* saveToDisk returns: the index stream is destroyed, which flushes the
\* rest of what was written; buildOrLoadIndex returns.
SaveClose ==
    /\ epc = "save_close"
    /\ eindex' = File(IndexWords(entries_))
    /\ epc' = "ready"
    /\ UNCHANGED <<ecorpus, emeta, edocs, eembs, entries_, eruns, elog,
                   edisk0, ebuilt, ecrashed>>

\* The process is killed in the embedding loop.
CrashEmbedding ==
    /\ epc = "embed"
    /\ epc' = "crashed"
    /\ UNCHANGED <<ecorpus, eindex, emeta, edocs, eembs, entries_, eruns,
                   elog, edisk0, ebuilt, ecrashed>>

\* The process is killed between the two writes: the index file is written
\* (what reached the disk stays), the metadata file is not yet created.
CrashBetweenWrites ==
    /\ epc = "save_meta"
    /\ epc' = "crashed"
    /\ ecrashed' = TRUE
    /\ UNCHANGED <<ecorpus, eindex, emeta, edocs, eembs, entries_, eruns,
                   elog, edisk0, ebuilt>>

(***************************************************************************)
(* Specifications: one per component, the others idle.                     *)
(***************************************************************************)
\* Initially loadDocuments is about to run on some corpus; the other components are idle.
InitChunk ==
    /\ \E k \in 0..MaxFiles : corpus \in Corpora(k)
    /\ chunks = <<>>
    /\ cpc = "start"
    /\ bdocs = <<>>
    /\ bembs = <<>>
    /\ bentries = <<>>
    /\ bpc = "idle"
    /\ sentries = <<>>
    /\ squery = <<>>
    /\ stopK = 0
    /\ sscored = <<>>
    /\ ssel = <<>>
    /\ sresult = <<>>
    /\ spc = "idle"
    /\ adocs = <<>>
    /\ ai = 0
    /\ context = <<>>
    /\ total_chars = 0
    /\ apc = "idle"
    /\ pstore = <<>>
    /\ pindex = NoFile
    /\ pmeta = NoFile
    /\ ploaded = <<>>
    /\ pshort = FALSE
    /\ ppc = "idle"
    /\ ecorpus = <<>>
    /\ eindex = NoFile
    /\ emeta = NoFile
    /\ edocs = <<>>
    /\ eembs = <<>>
    /\ entries_ = <<>>
    /\ epc = "idle"
    /\ eruns = 0
    /\ elog = <<>>
    /\ edisk0 = <<NoFile, NoFile>>
    /\ ebuilt = {}
    /\ ecrashed = FALSE

\* Initially build is about to run on some documents and embeddings; the other components are idle.
InitBuild ==
    /\ corpus = <<>>
    /\ chunks = <<>>
    /\ cpc = "idle"
    /\ \E n \in 0..MaxChunks : bdocs = BuildDocs(n)
    /\ \E m \in 0..MaxChunks : bembs \in BuildEmbeddings(m)
    /\ bentries = <<>>
    /\ bpc = "start"
    /\ sentries = <<>>
    /\ squery = <<>>
    /\ stopK = 0
    /\ sscored = <<>>
    /\ ssel = <<>>
    /\ sresult = <<>>
    /\ spc = "idle"
    /\ adocs = <<>>
    /\ ai = 0
    /\ context = <<>>
    /\ total_chars = 0
    /\ apc = "idle"
    /\ pstore = <<>>
    /\ pindex = NoFile
    /\ pmeta = NoFile
    /\ ploaded = <<>>
    /\ pshort = FALSE
    /\ ppc = "idle"
    /\ ecorpus = <<>>
    /\ eindex = NoFile
    /\ emeta = NoFile
    /\ edocs = <<>>
    /\ eembs = <<>>
    /\ entries_ = <<>>
    /\ epc = "idle"
    /\ eruns = 0
    /\ elog = <<>>
    /\ edisk0 = <<NoFile, NoFile>>
    /\ ebuilt = {}
    /\ ecrashed = FALSE

\* Initially search is about to run on some index, query and topK; the other components are idle.
InitSearch ==
    /\ corpus = <<>>
    /\ chunks = <<>>
    /\ cpc = "idle"
    /\ bdocs = <<>>
    /\ bembs = <<>>
    /\ bentries = <<>>
    /\ bpc = "idle"
    /\ \E n \in 0..MaxEntries : \E es \in [1..n -> Vecs] :
          sentries = [i \in 1..n |-> [doc |-> BuildDocs(n)[i], embedding |-> es[i]]]
    /\ squery \in Queries
    /\ stopK \in 1..MaxK
    /\ sscored = <<>>
    /\ ssel = <<>>
    /\ sresult = <<>>
    /\ spc = "start"
    /\ adocs = <<>>
    /\ ai = 0
    /\ context = <<>>
    /\ total_chars = 0
    /\ apc = "idle"
    /\ pstore = <<>>
    /\ pindex = NoFile
    /\ pmeta = NoFile
    /\ ploaded = <<>>
    /\ pshort = FALSE
    /\ ppc = "idle"
    /\ ecorpus = <<>>
    /\ eindex = NoFile
    /\ emeta = NoFile
    /\ edocs = <<>>
    /\ eembs = <<>>
    /\ entries_ = <<>>
    /\ epc = "idle"
    /\ eruns = 0
    /\ elog = <<>>
    /\ edisk0 = <<NoFile, NoFile>>
    /\ ebuilt = {}
    /\ ecrashed = FALSE

\* Initially the context loop is about to run on some ranked list; the other components are idle.
InitAsm ==
    /\ corpus = <<>>
    /\ chunks = <<>>
    /\ cpc = "idle"
    /\ bdocs = <<>>
    /\ bembs = <<>>
    /\ bentries = <<>>
    /\ bpc = "idle"
    /\ sentries = <<>>
    /\ squery = <<>>
    /\ stopK = 0
    /\ sscored = <<>>
    /\ ssel = <<>>
    /\ sresult = <<>>
    /\ spc = "idle"
    /\ \E n \in 1..MaxRanked :
          \E cl \in [1..n -> ContentLens], pl \in [1..n -> PathLens] :
              adocs = [i \in 1..n |-> RankedDoc(i, cl[i], pl[i])]
    /\ ai = 1
    /\ context = <<>>
    /\ total_chars = 0
    /\ apc = "loop"
    /\ pstore = <<>>
    /\ pindex = NoFile
    /\ pmeta = NoFile
    /\ ploaded = <<>>
    /\ pshort = FALSE
    /\ ppc = "idle"
    /\ ecorpus = <<>>
    /\ eindex = NoFile
    /\ emeta = NoFile
    /\ edocs = <<>>
    /\ eembs = <<>>
    /\ entries_ = <<>>
    /\ epc = "idle"
    /\ eruns = 0
    /\ elog = <<>>
    /\ edisk0 = <<NoFile, NoFile>>
    /\ ebuilt = {}
    /\ ecrashed = FALSE

\* Initially an index holding some built store is about to be saved; the other components are idle.
InitPersist ==
    /\ corpus = <<>>
    /\ chunks = <<>>
    /\ cpc = "idle"
    /\ bdocs = <<>>
    /\ bembs = <<>>
    /\ bentries = <<>>
    /\ bpc = "idle"
    /\ sentries = <<>>
    /\ squery = <<>>
    /\ stopK = 0
    /\ sscored = <<>>
    /\ ssel = <<>>
    /\ sresult = <<>>
    /\ spc = "idle"
    /\ adocs = <<>>
    /\ ai = 0
    /\ context = <<>>
    /\ total_chars = 0
    /\ apc = "idle"
    /\ \E n \in 1..MaxStore : \E d \in 1..MaxPDim : pstore \in PStores(n, d)
    /\ pindex = NoFile
    /\ pmeta = NoFile
    /\ ploaded = <<>>
    /\ pshort = FALSE
    /\ ppc = "built"
    /\ ecorpus = <<>>
    /\ eindex = NoFile
    /\ emeta = NoFile
    /\ edocs = <<>>
    /\ eembs = <<>>
    /\ entries_ = <<>>
    /\ epc = "idle"
    /\ eruns = 0
    /\ elog = <<>>
    /\ edisk0 = <<NoFile, NoFile>>
    /\ ebuilt = {}
    /\ ecrashed = FALSE

\* Initially no process has run and neither artifact exists; the other
\* components are idle.
InitEngine ==
    /\ corpus = <<>>
    /\ chunks = <<>>
    /\ cpc = "idle"
    /\ bdocs = <<>>
    /\ bembs = <<>>
    /\ bentries = <<>>
    /\ bpc = "idle"
    /\ sentries = <<>>
    /\ squery = <<>>
    /\ stopK = 0
    /\ sscored = <<>>
    /\ ssel = <<>>
    /\ sresult = <<>>
    /\ spc = "idle"
    /\ adocs = <<>>
    /\ ai = 0
    /\ context = <<>>
    /\ total_chars = 0
    /\ apc = "idle"
    /\ pstore = <<>>
    /\ pindex = NoFile
    /\ pmeta = NoFile
    /\ ploaded = <<>>
    /\ pshort = FALSE
    /\ ppc = "idle"
    /\ ecorpus \in ECorpora
    /\ eindex = NoFile
    /\ emeta = NoFile
    /\ edocs = <<>>
    /\ eembs = <<>>
    /\ entries_ = <<>>
    /\ epc = "idle"
    /\ eruns = 0
    /\ elog = <<>>
    /\ edisk0 = <<NoFile, NoFile>>
    /\ ebuilt = {}
    /\ ecrashed = FALSE

ChunkNext ==
    LoadDocuments /\ UNCHANGED <<buildVars, searchVars, asmVars, persistVars, engineVars>>

SpecChunk ==
    /\ InitChunk
    /\ [][ChunkNext]_vars

BuildNext ==
    Build /\ UNCHANGED <<chunkVars, searchVars, asmVars, persistVars, engineVars>>

SpecBuild ==
    /\ InitBuild
    /\ [][BuildNext]_vars

SearchNext ==
    \/ SearchEmpty /\ UNCHANGED <<chunkVars, buildVars, asmVars, persistVars, engineVars>>
    \/ Search /\ UNCHANGED <<chunkVars, buildVars, asmVars, persistVars, engineVars>>

SpecSearch ==
    /\ InitSearch
    /\ [][SearchNext]_vars

AsmNext ==
    \/ AsmEnd /\ UNCHANGED <<chunkVars, buildVars, searchVars, persistVars, engineVars>>
    \/ AsmBreak /\ UNCHANGED <<chunkVars, buildVars, searchVars, persistVars, engineVars>>
    \/ AsmIter /\ UNCHANGED <<chunkVars, buildVars, searchVars, persistVars, engineVars>>

SpecAsm ==
    /\ InitAsm
    /\ [][AsmNext]_vars

PersistNext ==
    \/ SaveToDisk /\ UNCHANGED <<chunkVars, buildVars, searchVars, asmVars, engineVars>>
    \/ TruncateIndex /\ UNCHANGED <<chunkVars, buildVars, searchVars, asmVars, engineVars>>
    \/ LoadFromDisk /\ UNCHANGED <<chunkVars, buildVars, searchVars, asmVars, engineVars>>

SpecPersist ==
    /\ InitPersist
    /\ [][PersistNext]_vars

otherVars == <<chunkVars, buildVars, searchVars, asmVars, persistVars>>

EngineNext ==
    \/ Start /\ UNCHANGED otherVars
    \/ LoadExisting /\ UNCHANGED otherVars
    \/ ChunkCorpus /\ UNCHANGED otherVars
    \/ Embed /\ UNCHANGED otherVars
    \/ EmbedFails /\ UNCHANGED otherVars
    \/ BuildIndex /\ UNCHANGED otherVars
    \/ SaveWriteIndex /\ UNCHANGED otherVars
    \/ SaveWriteMeta /\ UNCHANGED otherVars
    \/ SaveClose /\ UNCHANGED otherVars
    \/ CrashEmbedding /\ UNCHANGED otherVars
    \/ CrashBetweenWrites /\ UNCHANGED otherVars

SpecEngine ==
    /\ InitEngine
    /\ [][EngineNext]_vars

(***************************************************************************)
(* C9: chunking.                                                           *)
(***************************************************************************)
\* The segments of s between occurrences of the separator, the leftmost
\* occurrence first (the empty ones included).
RECURSIVE Segments(_)
Segments(s) ==
    LET seps == {i \in 1..(Len(s) - 1) : s[i] = NL /\ s[i + 1] = NL} IN
    IF seps = {} THEN <<s>>
    ELSE LET i == CHOOSE x \in seps : \A y \in seps : x <= y
         IN <<SubSeq(s, 1, i - 1)>> \o Segments(SubSeq(s, i + 2, Len(s)))

NonEmptyString(s) == s # <<>>

RECURSIVE ExpectedPieces(_, _)
ExpectedPieces(files, i) ==
    IF i > Len(files) THEN <<>>
    ELSE LET segs == SelectSeq(Segments(files[i].content), NonEmptyString)
         IN [j \in 1..Len(segs) |-> [sourcePath |-> files[i].path,
                                     content |-> segs[j]]]
            \o ExpectedPieces(files, i + 1)

Decimals == <<"0", "1", "2", "3", "4", "5", "6", "7", "8", "9">>

ExpectedId(n) ==
    <<"d", "o", "c", "-">> \o
        (IF n < 10 THEN <<Decimals[n + 1]>>
         ELSE <<Decimals[(n \div 10) + 1], Decimals[(n % 10) + 1]>>)

HasSeparator(s) == \E i \in 1..(Len(s) - 1) : s[i] = NL /\ s[i + 1] = NL

\* C9: when loadDocuments returns, its chunks are exactly the non-empty
\* segments of every file, split on "\n\n" from the left, in file order,
\* the last segment of a file included; no chunk is empty or holds the
\* separator; the ids are doc-0, doc-1, ... in emission order, without gaps.
C9_Chunking ==
    cpc = "done" =>
        LET exp == ExpectedPieces(corpus, 1) IN
        /\ Len(chunks) = Len(exp)
        /\ \A i \in 1..Len(chunks) :
              /\ chunks[i].content = exp[i].content
              /\ chunks[i].sourcePath = exp[i].sourcePath
              /\ chunks[i].id = ExpectedId(i - 1)
              /\ chunks[i].content # <<>>
              /\ ~HasSeparator(chunks[i].content)

\* A leading empty segment is dropped, a file yields two chunks, the last one
\* without a separator after it, and the ids run across the files.
C9_Witness ==
    /\ cpc = "done"
    /\ Len(corpus) = 2
    /\ corpus[1].content = <<NL, NL, "a">>
    /\ corpus[2].content = <<"a", NL, NL, "a">>
    /\ Len(chunks) = 3
    /\ chunks[3].id = <<"d", "o", "c", "-", "2">>

(***************************************************************************)
(* C5: build.                                                              *)
(***************************************************************************)
\* The pairs of the input whose embedding has d elements, as indices.
KeptIndices(embeddings, d) ==
    {i \in 1..Len(embeddings) : Len(embeddings[i]) = d}

FirstNonEmpty(embeddings) ==
    CHOOSE i \in 1..Len(embeddings) :
        /\ embeddings[i] # <<>>
        /\ \A j \in 1..(i - 1) : embeddings[j] = <<>>

\* C5: for a non-empty input of equally many documents and embeddings, build
\* fails exactly when every embedding is empty; otherwise, with D the length
\* of the first non-empty embedding, entries_ holds exactly the pairs whose
\* embedding has D elements, in input order, so N >= 1 and every stored
\* embedding has D elements.
C5_Build ==
    (bpc \in {"built", "failed"} /\ bdocs # <<>> /\ Len(bdocs) = Len(bembs)) =>
        IF \A i \in 1..Len(bembs) : bembs[i] = <<>>
        THEN bpc = "failed"
        ELSE LET D == Len(bembs[FirstNonEmpty(bembs)])
                 kept == KeptIndices(bembs, D)
             IN /\ bpc = "built"
                /\ Len(bentries) = Cardinality(kept)
                /\ Len(bentries) >= 1
                /\ \A j \in 1..Len(bentries) : Len(bentries[j].embedding) = D
                /\ \E f \in [1..Len(bentries) -> kept] :
                      /\ \A a, b \in 1..Len(bentries) : a < b => f[a] < f[b]
                      /\ \A j \in 1..Len(bentries) :
                            /\ bentries[j].doc = bdocs[f[j]]
                            /\ bentries[j].embedding = bembs[f[j]]

\* A build that drops an empty first embedding and a third one of another
\* length, and keeps the second pair alone.
C5_Witness ==
    /\ bpc = "built"
    /\ Len(bdocs) = 3
    /\ bembs[1] = <<>>
    /\ Len(bembs[2]) = 2
    /\ Len(bembs[3]) = 3
    /\ Len(bentries) = 1

(***************************************************************************)
(* C8 and C2: search.                                                      *)
(***************************************************************************)
Returned == {ssel[i] : i \in 1..Len(ssel)}

\* C8: a search of a non-empty index with k >= 1 returns min(k, N) documents
\* of distinct entries, in non-increasing score order, no entry left out
\* scoring higher than one returned; an entry whose embedding has another
\* length than the query scores 0 and the search still returns.
C8_TopK ==
    /\ spc = "failed" => sentries = <<>>
    /\ spc = "done" =>
        LET N == Len(sentries) IN
        /\ Len(sresult) = Min(stopK, N)
        /\ Len(ssel) = Len(sresult)
        /\ \A i \in 1..Len(ssel) : sresult[i] = sentries[ssel[i]].doc
        /\ \A i, j \in 1..Len(ssel) : i # j => ssel[i] # ssel[j]
        /\ \A i, j \in 1..Len(ssel) :
              i < j => ~Greater(sscored[ssel[j]], sscored[ssel[i]])
        /\ \A r \in Returned : \A u \in (1..N) \ Returned :
              ~Greater(sscored[u], sscored[r])
        /\ \A i \in 1..N :
              Len(sentries[i].embedding) # Len(squery) => sscored[i].num = 0

\* Three entries of three different scores, two of them returned, the best
\* first.
C8_Witness ==
    /\ spc = "done"
    /\ Len(sentries) = 3
    /\ stopK = 2
    /\ squery = <<1, 0>>
    /\ sentries[1].embedding = <<0, 1>>
    /\ sentries[2].embedding = <<1, 1>>
    /\ sentries[3].embedding = <<2, 0>>
    /\ ssel = <<3, 2>>

\* C2: ties are broken by insertion order: of two returned entries of equal
\* score the one inserted first comes first, and an entry left out never
\* has the score of a returned entry inserted after it.
C2_StableTies ==
    spc = "done" =>
        /\ \A i, j \in 1..Len(ssel) :
              (i < j /\ SameScore(sscored[ssel[i]], sscored[ssel[j]]))
                  => ssel[i] < ssel[j]
        /\ \A r \in Returned : \A u \in (1..Len(sentries)) \ Returned :
              SameScore(sscored[u], sscored[r]) => r < u

(***************************************************************************)
(* C1 and C7: the context loop.                                            *)
(***************************************************************************)
RECURSIVE TotalSize(_, _)
TotalSize(pieces, n) ==
    IF n = 0 THEN 0 ELSE Size(pieces[n]) + TotalSize(pieces, n - 1)

\* C1: the decorated pieces in the context never add up to more than
\* MAX_TOTAL_CHARS characters.
C1_TotalWithinLimit ==
    TotalSize(context, Len(context)) <= MAX_TOTAL_CHARS

\* The size of document d's piece when nothing but the per-chunk cap cuts
\* it: the prefix, at most MAX_CHARS_PER_CHUNK characters, and the marker
\* if the content was longer.
FullPieceSize(d) ==
    (Size(d.sourcePath) + 3)
    + (IF Size(d.content) > MAX_CHARS_PER_CHUNK
       THEN MAX_CHARS_PER_CHUNK + 3 ELSE Size(d.content))

EndsWithEllipsis(s) ==
    /\ s # <<>>
    /\ s[Len(s)].ch = Lit(".")
    /\ s[Len(s)].n >= 3

\* The piece is document d's: "[", its source path, "]\n", then a prefix of
\* its content, then at most two markers.
PieceOfDoc(piece, d) ==
    LET head == Cat(Cat(Run(Lit("["), 1), d.sourcePath),
                    Cat(Run(Lit("]"), 1), Run(Lit(NL), 1)))
        dots == IF piece # <<>> /\ piece[Len(piece)].ch = Lit(".")
                THEN piece[Len(piece)].n ELSE 0
        n    == Size(piece) - Size(head) - dots
    IN /\ n \in 0..Size(d.content)
       /\ dots <= 6
       /\ piece = Cat(head, Cat(Take(d.content, n), Run(Lit("."), dots)))

\* C7: the pieces are those of a prefix of the ranked list, in order; the
\* loop stops only when the list or the budget is used up; and a piece that
\* would take the running total past MAX_TOTAL_CHARS while budget remains
\* is cut to fill the remaining budget exactly, ends with the marker, and
\* is the last piece.
C7_BoundaryPiece ==
    /\ Len(context) <= Len(adocs)
    /\ \A i \in 1..Len(context) : PieceOfDoc(context[i], adocs[i])
    /\ apc = "done" =>
          \/ Len(context) = Len(adocs)
          \/ TotalSize(context, Len(context)) >= MAX_TOTAL_CHARS
    /\ \A i \in 1..Len(context) :
          LET before == TotalSize(context, i - 1) IN
          (before < MAX_TOTAL_CHARS
              /\ before + FullPieceSize(adocs[i]) > MAX_TOTAL_CHARS)
          => /\ Size(context[i]) = MAX_TOTAL_CHARS - before
             /\ EndsWithEllipsis(context[i])
             /\ Len(context) = i

(***************************************************************************)
(* C4 and C3: saveToDisk and loadFromDisk.                                 *)
(***************************************************************************)
\* C4: a load of the two files saveToDisk wrote, untouched, succeeds and
\* gives as many entries, in the same order, each with the saved id,
\* sourcePath, content and embedding.
C4_RoundTrip ==
    (ppc \in {"loaded", "failed"} /\ ~pshort) =>
        /\ ppc = "loaded"
        /\ Len(ploaded) = Len(pstore)
        /\ \A i \in 1..Len(pstore) :
              /\ ploaded[i].doc.id = pstore[i].doc.id
              /\ ploaded[i].doc.sourcePath = pstore[i].doc.sourcePath
              /\ ploaded[i].doc.content = pstore[i].doc.content
              /\ Len(ploaded[i].embedding) = Len(pstore[i].embedding)
              /\ \A k \in 1..Len(pstore[i].embedding) :
                    ploaded[i].embedding[k] = pstore[i].embedding[k]

\* A store of two entries of dimension 2, with a quote and a backslash in
\* its contents, saved and loaded.
C4_Witness ==
    /\ ppc = "loaded"
    /\ ~pshort
    /\ Len(pstore) = 2
    /\ pstore[1].doc.content = <<QUOTE>>
    /\ pstore[2].doc.content = <<BACKSLASH, "n">>
    /\ pstore[1].embedding = <<-1, 2>>
    /\ pstore[2].embedding = <<2, -1>>
    /\ Len(ploaded) = 2

\* The index file holds fewer words than its header announces, or not
\* even the header.
ShorterThanAnnounced(data) ==
    \/ Len(data) < 2
    \/ Len(data) < 2 + data[1] * data[2]

\* C3: a load of an index file shorter than its header announces fails; it
\* never ends with entries_ filled.
C3_ShortReadFails ==
    (ppc = "loaded") => ~ShorterThanAnnounced(pindex.data)

(***************************************************************************)
(* C6 and C10: buildOrLoadIndex over several runs.                         *)
(***************************************************************************)
Ops(log) == {log[i].op : i \in 1..Len(log)}

\* The contents of the corpus' chunks, in chunk order.
ChunkContents == LET ds == ExpectedPieces(ecorpus, 1)
                 IN [i \in 1..Len(ds) |-> ds[i].content]

\* The calls of a run that finds no persisted index and goes through: one
\* embed per chunk in chunk order, then build, then the two writes.
FullRun ==
    [i \in 1..Len(ChunkContents) |-> Event("embed", ChunkContents[i])]
    \o <<Event("build", <<>>), Event("write_index", <<>>),
         Event("write_meta", <<>>)>>

IsPrefix(a, b) == Len(a) <= Len(b) /\ a = SubSeq(b, 1, Len(a))

Running == epc \notin {"idle", "start"}

BothExisted == edisk0[1].exists /\ edisk0[2].exists

\* C6: a run that finds both artifacts only loads: no embed call, no build,
\* nothing written.  Any other run calls embed once per chunk, one call at
\* a time in chunk order, all before build, and build before the two
\* writes, and has made all of them when it returns; with no chunk it ends
\* fatally with no call made and nothing written; once an embed call has
\* failed it ends fatally with nothing built and nothing written.
C6_EnsureIndexOrder ==
    /\ (Running /\ BothExisted) =>
          /\ elog = <<Event("load", <<>>)>>
          /\ <<eindex, emeta>> = edisk0
          /\ eembs = <<>>
    /\ (Running /\ ~BothExisted) =>
          /\ "load" \notin Ops(elog)
          /\ IF "embed_failed" \in Ops(elog)
             THEN /\ elog[Len(elog)].op = "embed_failed"
                  /\ IsPrefix(SubSeq(elog, 1, Len(elog) - 1), FullRun)
                  /\ Ops(elog) \subseteq {"embed", "embed_failed"}
                  /\ epc = "fatal"
             ELSE IsPrefix(elog, FullRun)
          /\ Len(eembs) = Cardinality({i \in 1..Len(elog) : elog[i].op = "embed"})
          /\ "build" \notin Ops(elog) => entries_ = <<>>
          /\ "write_index" \notin Ops(elog) => <<eindex, emeta>> = edisk0
          /\ "write_meta" \notin Ops(elog) => emeta = edisk0[2]
          /\ epc = "ready" => elog = FullRun
          /\ ChunkContents = <<>> => (epc = "fatal" /\ elog = <<>>)

\* A run without persisted index that embedded two chunks, built and
\* persisted, and a run that found both artifacts and loaded.
C6_Witness ==
    /\ epc = "ready"
    /\ BothExisted
    /\ elog = <<Event("load", <<>>)>>
    /\ Len(ChunkContents) = 2
    /\ Len(entries_) = 2

\* C10: from a start without artifacts and with crashes only before the
\* metadata file is created, a run loads only if both files exist (after a
\* crash between the two writes the metadata file is missing, so the next
\* run rebuilds), every load succeeds, and the store it returns is one
\* that a build produced.
C10_CrashSafeLoad ==
    /\ (epc = "start" /\ ~emeta.exists) => ~ENABLED LoadExisting
    /\ "load" \in Ops(elog) =>
          /\ eindex.exists /\ emeta.exists
          /\ epc = "ready"
          /\ entries_ \in ebuilt

\* A run crashed between the two writes, a later run rebuilt and persisted,
\* and a still later run loaded.
C10_Witness ==
    /\ ecrashed
    /\ epc = "ready"
    /\ "load" \in Ops(elog)
    /\ Len(entries_) >= 1
====
